---- MODULE Spec2Model ----
(***************************************************************************)
(* A model of the daily-stories client: the LocalDatabase wrapper around   *)
(* IndexedDB (src/services/db.ts) and the service worker that caches the   *)
(* application shell (src/unnamed/part_001), and the handlers of the App   *)
(* component that keep the lists on screen and the store together          *)
(* (src/App.tsx).                                                          *)
(***************************************************************************)
EXTENDS Integers, Sequences, FiniteSets, TLC

(***************************************************************************)
(* Bounds of the model.                                                    *)
(***************************************************************************)
\* number of callers that may have a LocalDatabase call in flight at once
NProcs == 2
\* cap on the number of indexedDB.open requests issued in one run
MaxOpens == 2
\* cap on the number of LocalDatabase calls made in one run
MaxCalls == 2
\* cap on the number of requests the page makes in one run
MaxRequests == 2
\* cap on the number of clicks handled in one run
MaxEvents == 2
\* cap on the LocalDatabase calls and page requests of one run of the page and
\* the worker together
MaxTogether == 1

Procs == 1..NProcs

\* calls[p] is the call of caller p; a caller awaiting two calls at once
\* (Promise.all) has the second one in calls[Second(p)]
Second(p) == p + NProcs

Slots == 1..(2 * NProcs)

(***************************************************************************)
(* Program constants.                                                      *)
(***************************************************************************)
DB_VERSION == 1

StoreNames == {"notes", "habits"}

(***************************************************************************)
(* Records.  A Note is {id, title, content, createdAt, synced}; a Habit is *)
(* {id, name, completedDays, streak}.  Two ids and two payloads per id are *)
(* enough to tell an insert from a replacement.                            *)
(***************************************************************************)
NoteIds == {"a", "b"}
HabitIds == {"h"}

Notes ==
  [id : NoteIds, title : {"T", "U"}, content : {"C"}, createdAt : {1000}, synced : {TRUE}]

Habits ==
  {[id |-> "h", name |-> "run", completedDays |-> <<>>, streak |-> 0],
   [id |-> "h", name |-> "run", completedDays |-> <<"d1">>, streak |-> 1]}

\* a note left in the store by an earlier session
StoredNote == [id |-> "a", title |-> "T", content |-> "C", createdAt |-> 1000, synced |-> TRUE]

NoData == [id |-> "none"]

\* IndexedDB keeps the records of an object store in key order; keys are the
\* strings of the 'id' key path, ordered here by rank.
KeyRank(id) ==
  CASE id = "a" -> 1
    [] id = "b" -> 2
    [] id = "h" -> 3
    [] id = "g" -> 4
    [] id = "n" -> 5
    [] OTHER -> 0

VARIABLES
  db,          \* LocalDatabase.db: 0 is null, n > 0 the connection of open request n
  opens,       \* number of indexedDB.open requests issued so far
  dbVersion,   \* version of the ZenMindDB database on disk, 0 when it does not exist
  objectStoreNames, \* the object stores of the database on disk
  stores,      \* stores[s]: the records of object store s, in key order
  calls,       \* calls[p]: the LocalDatabase call caller p has in flight
  ncalls,      \* number of LocalDatabase calls made so far
  txQueue,     \* callers whose transaction is started and whose request is pending
  lastWrite    \* lastWrite[s]: the most recent put or delete executed on store s

storeVars == <<db, opens, dbVersion, objectStoreNames, stores, calls, ncalls, txQueue, lastWrite>>

VARIABLES
  swState,      \* state of this version of the worker: parsed, installing, installed,
                \* activating, activated or redundant
  prevLive,     \* TRUE while a previously installed version is the active worker
  cacheNames,   \* the cache namespaces of the origin, in creation order (caches.keys())
  cacheEntries, \* cacheEntries[n][u]: the response stored for URL u in namespace n
  fetched,      \* manifest assets cache.addAll has fetched so far
  failed,       \* manifest assets whose fetch failed
  keys,         \* the names caches.keys() gave the activate handler
  deleting,     \* namespaces whose caches.delete is pending
  requests,     \* requests[r]: the r-th request of the page and how far it got
  nreqs,        \* number of requests made so far
  pendingPuts   \* cache.put calls started by the fetch handler and not yet completed

proxyVars == <<swState, prevLive, cacheNames, cacheEntries, fetched, failed, keys, deleting,
               requests, nreqs, pendingPuts>>

VARIABLES
  notes,     \* the 'notes' state of the App component
  habits,    \* the 'habits' state of the App component
  handlers,  \* handlers[p]: the handler invocation p is running and what it holds
  loads,     \* number of times the mount effect has called loadData
  nevents,   \* number of clicks handled so far
  uuids,     \* the ids crypto.randomUUID() has produced
  agreed     \* TRUE once the lists have held the records of the store with no handler
             \* running

appVars == <<notes, habits, handlers, loads, nevents, uuids, agreed>>

vars == <<db, opens, dbVersion, objectStoreNames, stores, calls, ncalls, txQueue, lastWrite,
          swState, prevLive, cacheNames, cacheEntries, fetched, failed, keys, deleting,
          requests, nreqs, pendingPuts, notes, habits, handlers, loads, nevents, uuids,
          agreed>>

(***************************************************************************)
(* The object store operations of IndexedDB the wrapper relies on.  Both   *)
(* stores are created with keyPath 'id'.                                   *)
(***************************************************************************)
\* the structured clone of a plain record: a record with the same fields
StructuredClone(data) == [f \in DOMAIN data |-> data[f]]

\* a put that leaves a record already stored under the key as it is
StorePut_keepOld(records, data) ==
  IF \E i \in 1..Len(records) : records[i].id = data.id THEN records
  ELSE LET lower == SelectSeq(records, LAMBDA r : KeyRank(r.id) < KeyRank(data.id))
           upper == SelectSeq(records, LAMBDA r : KeyRank(r.id) > KeyRank(data.id))
       IN lower \o <<data>> \o upper

\* a put that adds the record without looking for its key
StorePut_append(records, data) == Append(records, data)

\* store.put(data): the record with the key of data is replaced, or data is
\* inserted at its place in key order
StorePut(records, data) ==
  LET kept == SelectSeq(records, LAMBDA r : r.id # data.id)
      lower == SelectSeq(kept, LAMBDA r : KeyRank(r.id) < KeyRank(data.id))
      upper == SelectSeq(kept, LAMBDA r : KeyRank(r.id) > KeyRank(data.id))
  IN lower \o <<StructuredClone(data)>> \o upper

\* a delete that removes nothing
StoreDelete_noop(records, id) == records

\* store.delete(id): the record with that key, if any, is removed
StoreDelete(records, id) == SelectSeq(records, LAMBDA r : r.id # id)

\* a read that sees a write half applied: only the first record
StoreGetAll_torn(records) == IF Len(records) > 1 THEN <<records[1]>> ELSE records

\* store.getAll(): every record, in key order
StoreGetAll(records) == records

\* no write executed yet in this session
NoWrite == [op |-> "none", data |-> NoData, wasEmpty |-> FALSE]

\* calls[p]: op, store, data are the call; pc its position; handle the connection its
\* transaction was started on; req the open request it issued; dbAtCall the value of
\* this.db when it was made; result what the request returned; err the rejection;
\* seen, before, after the last write and the store content its request found and left
IdleCall ==
  [op |-> "none", store |-> "none", data |-> NoData, pc |-> "idle", handle |-> 0,
   req |-> 0, dbAtCall |-> 0, result |-> <<>>, err |-> "none",
   seen |-> NoWrite, before |-> <<>>, after |-> <<>>]

(***************************************************************************)
(* LocalDatabase                                                           *)
(***************************************************************************)
\* a wrapper that never awaits init()
NeedsInit_never(handle) == FALSE

\* 'if (!this.db) await this.init();'
NeedsInit(handle) == handle = 0

\* 'this.db!.transaction(storeName, mode)' and the request placed on it, run
\* inside the promise executor: a throw there rejects the promise
Transaction(c, handle, names) ==
  IF handle = 0 THEN [c EXCEPT !.pc = "failed", !.err = "TypeError"]
  ELSE IF c.store \notin names THEN [c EXCEPT !.pc = "failed", !.err = "NotFoundError"]
  ELSE [c EXCEPT !.pc = "pending", !.handle = handle]

Enqueue(queue, p, c) == IF c.pc = "pending" THEN Append(queue, p) ELSE queue

\* the part of getAll / put / delete that runs before the first suspension
Issue(p, c) ==
  /\ calls[p].pc = "idle"
  /\ IF NeedsInit(db)
       THEN /\ opens < MaxOpens
            /\ opens' = opens + 1
            /\ calls' = [calls EXCEPT ![p] = [c EXCEPT !.pc = "opening", !.req = opens + 1]]
            /\ UNCHANGED txQueue
       ELSE /\ calls' = [calls EXCEPT ![p] = Transaction(c, db, objectStoreNames)]
            /\ txQueue' = Enqueue(txQueue, p, calls'[p])
            /\ UNCHANGED opens
  /\ UNCHANGED <<db, dbVersion, objectStoreNames, stores, lastWrite>>

\* callers are interchangeable: a new call is made as the first idle one
FirstIdle(p) == \A q \in 1..(p - 1) : calls[q].pc # "idle"

\* a call made by a caller outside the App component
Begin(p, c) ==
  /\ FirstIdle(p)
  /\ ncalls < MaxCalls
  /\ ncalls' = ncalls + 1
  /\ Issue(p, c)
  /\ UNCHANGED proxyVars
  /\ UNCHANGED appVars

\* indexedDB.open(DB_NAME, DB_VERSION), whatever this.db holds
Open(p) ==
  /\ calls[p].pc = "idle"
  /\ opens < MaxOpens
  /\ opens' = opens + 1
  /\ calls' = [calls EXCEPT ![p] =
                 [IdleCall EXCEPT !.op = "init", !.pc = "opening", !.req = opens + 1,
                                  !.dbAtCall = db]]
  /\ UNCHANGED <<db, dbVersion, objectStoreNames, stores, txQueue, lastWrite>>

init(p) ==
  /\ FirstIdle(p)
  /\ ncalls < MaxCalls
  /\ ncalls' = ncalls + 1
  /\ Open(p)
  /\ UNCHANGED proxyVars
  /\ UNCHANGED appVars

GetAllCall(storeName) ==
  [IdleCall EXCEPT !.op = "getAll", !.store = storeName, !.dbAtCall = db]

PutCall(storeName, data) ==
  [IdleCall EXCEPT !.op = "put", !.store = storeName, !.data = data, !.dbAtCall = db]

DeleteCall(storeName, id) ==
  [IdleCall EXCEPT !.op = "delete", !.store = storeName, !.data = [id |-> id],
                   !.dbAtCall = db]

getAll(p, storeName) == Begin(p, GetAllCall(storeName))

put(p, storeName, data) == Begin(p, PutCall(storeName, data))

delete(p, storeName, id) == Begin(p, DeleteCall(storeName, id))

getAllNotes(p) == getAll(p, "notes")

saveNote(p) == \E note \in Notes : put(p, "notes", note)

deleteNote(p) == \E id \in NoteIds : delete(p, "notes", id)

getAllHabits(p) == getAll(p, "habits")

saveHabit(p) == \E habit \in Habits : put(p, "habits", habit)

\* the handler running as p awaits a promise that has settled: one call, or
\* the Promise.all of two, which resolves when both have and rejects with the
\* first that does
Resumable(p) ==
  /\ handlers[p].pc # "idle"
  /\ IF handlers[p].pc = "all"
       THEN \/ calls[p].pc = "failed"
            \/ calls[Second(p)].pc = "failed"
            \/ calls[p].pc = "done" /\ calls[Second(p)].pc = "done"
       ELSE calls[p].pc \in {"done", "failed"}

\* a settled await resumes in a microtask, before the next event or click is
\* handled
Quiet == \A p \in Procs : ~Resumable(p)

\* open requests on one database are served in the order they were made
FirstOpen(p) ==
  /\ Quiet
  /\ calls[p].pc = "opening"
  /\ \A q \in DOMAIN calls : calls[q].pc = "opening" => calls[p].req <= calls[q].req

\* request.onupgradeneeded, then request.onsuccess of indexedDB.open, then the
\* continuation of the caller awaiting init()
open_onsuccess(p) ==
  /\ FirstOpen(p)
  /\ dbVersion' = DB_VERSION
  /\ objectStoreNames' =
       IF dbVersion < DB_VERSION THEN objectStoreNames \cup {"notes", "habits"}
       ELSE objectStoreNames
  /\ db' = calls[p].req
  /\ calls' = [calls EXCEPT ![p] =
                 IF calls[p].op = "init" THEN [calls[p] EXCEPT !.pc = "done"]
                 ELSE Transaction(calls[p], db', objectStoreNames')]
  /\ txQueue' = Enqueue(txQueue, p, calls'[p])
  /\ UNCHANGED <<opens, ncalls, stores, lastWrite>>
  /\ UNCHANGED proxyVars
  /\ UNCHANGED appVars

\* an open whose error resolves init(): the caller goes on as if it were open
open_onerror_resolves(p) ==
  /\ Quiet
  /\ calls[p].pc = "opening"
  /\ \A q \in DOMAIN calls : calls[q].pc = "opening" => calls[p].req <= calls[q].req
  /\ calls' = [calls EXCEPT ![p] =
                 IF calls[p].op = "init" THEN [calls[p] EXCEPT !.pc = "done"]
                 ELSE Transaction(calls[p], db, objectStoreNames)]
  /\ txQueue' = Enqueue(txQueue, p, calls'[p])
  /\ UNCHANGED <<db, opens, ncalls, dbVersion, objectStoreNames, stores, lastWrite>>
  /\ UNCHANGED proxyVars
  /\ UNCHANGED appVars

\* request.onerror of indexedDB.open: init() rejects, and so does the caller
open_onerror(p) ==
  /\ FirstOpen(p)
  /\ calls' = [calls EXCEPT ![p] = [calls[p] EXCEPT !.pc = "failed", !.err = "open"]]
  /\ UNCHANGED <<db, opens, ncalls, dbVersion, objectStoreNames, stores, txQueue, lastWrite>>
  /\ UNCHANGED proxyVars
  /\ UNCHANGED appVars

\* transactions on one object store run in the order they were created
FirstOnStore(p) ==
  /\ Quiet
  /\ calls[p].pc = "pending"
  /\ \E i \in 1..Len(txQueue) :
       /\ txQueue[i] = p
       /\ \A j \in 1..(i - 1) : calls[txQueue[j]].store # calls[p].store

Dequeue(queue, p) == SelectSeq(queue, LAMBDA q : q # p)

Apply(c, records) ==
  CASE c.op = "put" -> StorePut(records, c.data)
    [] c.op = "delete" -> StoreDelete(records, c.data.id)
    [] OTHER -> records

\* a request whose write goes to every object store of the database
request_onsuccess_allStores(p) ==
  /\ FirstOnStore(p)
  /\ stores' = [t \in StoreNames |-> Apply(calls[p], stores[t])]
  /\ calls' = [calls EXCEPT ![p] =
                 [calls[p] EXCEPT !.pc = "done",
                                  !.result = IF calls[p].op = "getAll"
                                               THEN StoreGetAll(stores[calls[p].store])
                                               ELSE <<>>,
                                  !.seen = lastWrite[calls[p].store],
                                  !.before = stores[calls[p].store],
                                  !.after = stores'[calls[p].store]]]
  /\ txQueue' = Dequeue(txQueue, p)
  /\ UNCHANGED <<db, opens, ncalls, dbVersion, objectStoreNames, lastWrite>>
  /\ UNCHANGED proxyVars
  /\ UNCHANGED appVars

\* the request is executed and its onsuccess resolves the promise
request_onsuccess(p) ==
  /\ FirstOnStore(p)
  /\ LET c == calls[p]
         s == c.store
         result == IF c.op = "getAll" THEN StoreGetAll(stores[s]) ELSE <<>>
     IN /\ stores' = [stores EXCEPT ![s] = Apply(c, stores[s])]
        /\ calls' = [calls EXCEPT ![p] =
                       [c EXCEPT !.pc = "done", !.result = result, !.seen = lastWrite[s],
                                 !.before = stores[s], !.after = stores'[s]]]
        /\ lastWrite' =
             IF c.op = "getAll" THEN lastWrite
             ELSE [lastWrite EXCEPT ![s] =
                     [op |-> c.op, data |-> c.data, wasEmpty |-> stores[s] = <<>>]]
  /\ txQueue' = Dequeue(txQueue, p)
  /\ UNCHANGED <<db, opens, ncalls, dbVersion, objectStoreNames>>
  /\ UNCHANGED proxyVars
  /\ UNCHANGED appVars

\* a failing request whose write stays in the store
request_onerror_partial(p) ==
  /\ FirstOnStore(p)
  /\ stores' = [stores EXCEPT ![calls[p].store] = Apply(calls[p], @)]
  /\ calls' = [calls EXCEPT ![p] =
                 [calls[p] EXCEPT !.pc = "failed", !.err = "request",
                                  !.before = stores[calls[p].store],
                                  !.after = stores'[calls[p].store]]]
  /\ txQueue' = Dequeue(txQueue, p)
  /\ UNCHANGED <<db, opens, ncalls, dbVersion, objectStoreNames, lastWrite>>
  /\ UNCHANGED proxyVars
  /\ UNCHANGED appVars

\* the request fails, its transaction is rolled back and its onerror rejects the
\* promise
request_onerror(p) ==
  /\ FirstOnStore(p)
  /\ stores' = stores
  /\ calls' = [calls EXCEPT ![p] =
                 [calls[p] EXCEPT !.pc = "failed", !.err = "request",
                                  !.before = stores[calls[p].store],
                                  !.after = stores'[calls[p].store]]]
  /\ txQueue' = Dequeue(txQueue, p)
  /\ UNCHANGED <<db, opens, ncalls, dbVersion, objectStoreNames, lastWrite>>
  /\ UNCHANGED proxyVars
  /\ UNCHANGED appVars

\* the caller's await of the settled promise resumes
settled(p) ==
  /\ calls[p].pc \in {"done", "failed"}
  /\ calls' = [calls EXCEPT ![p] = IdleCall]
  /\ UNCHANGED <<db, opens, ncalls, dbVersion, objectStoreNames, stores, txQueue, lastWrite>>
  /\ UNCHANGED proxyVars
  /\ UNCHANGED appVars

InitStore ==
  /\ db = 0
  /\ opens = 0
  /\ ncalls = 0
  /\ \/ /\ dbVersion = 0
        /\ objectStoreNames = {}
        /\ stores = [s \in StoreNames |-> <<>>]
     \/ /\ dbVersion = DB_VERSION
        /\ objectStoreNames = StoreNames
        /\ stores = [s \in StoreNames |-> IF s = "notes" THEN <<StoredNote>> ELSE <<>>]
  /\ calls = [p \in Procs |-> IdleCall]
  /\ txQueue = <<>>
  /\ lastWrite = [s \in StoreNames |-> NoWrite]

NextStore ==
  \E p \in Procs :
    \/ init(p)
    \/ getAllNotes(p)
    \/ saveNote(p)
    \/ deleteNote(p)
    \/ getAllHabits(p)
    \/ saveHabit(p)
    \/ open_onsuccess(p)
    \/ open_onerror(p)
    \/ request_onsuccess(p)
    \/ request_onerror(p)
    \/ settled(p)

(***************************************************************************)
(* The service worker (src/unnamed/part_001).                              *)
(*                                                                         *)
(* A URL is the sequence of the parts of its text, so that                 *)
(* String.includes is a search for a part.                                 *)
(***************************************************************************)
CACHE_NAME == "zenmind-v1"

Origin == "app.example"

Local(path) == <<"https", Origin, path>>

ShellUrl == Local("index.html")

ASSETS_TO_CACHE ==
  <<Local(""), ShellUrl, Local("manifest.json"),
    <<"https", "cdn.tailwindcss.com">>,
    <<"https", "fonts.googleapis.com", "css2?family=Inter">>>>

Assets == {ASSETS_TO_CACHE[i] : i \in 1..Len(ASSETS_TO_CACHE)}

\* a call of the insight-generation endpoint
ApiUrl == <<"https", "generativelanguage.googleapis.com", "v1beta", "models">>

\* a script of a browser extension
ExtUrl == <<"chrome-extension", "abcdef", "content.js">>

\* a same-origin asset that is not in the manifest
AppUrl == Local("index.tsx")

RequestUrls == {ShellUrl, AppUrl, ApiUrl, ExtUrl}

AllUrls == Assets \cup RequestUrls

Methods == {"GET", "POST"}

Modes == {"navigate", "cors"}

OldNames == {"zenmind-v0", "workbox-precache"}

AllNames == {CACHE_NAME} \cup OldNames

\* url.includes(part)
includes(url, part) == \E i \in 1..Len(url) : url[i] = part

NoResponse == [url |-> <<>>, status |-> 0, src |-> "none"]

\* what the page gets when respondWith settles with undefined or a rejection
NetworkError == [url |-> <<>>, status |-> 0, src |-> "error"]

Response(url, status, src) == [url |-> url, status |-> status, src |-> src]

EmptyCache == [u \in AllUrls |-> NoResponse]

\* what an earlier version of the worker left in its namespace
OldCache ==
  [u \in AllUrls |-> IF u \in {ShellUrl, ApiUrl} THEN Response(u, 200, "old") ELSE NoResponse]

\* requests[r]: url, method, mode are the request; pc its position; lookedUp whether
\* caches.match was called for it; matched what that returned; network whether a
\* network fetch was made; netFailed whether it failed; fetchResponse what it gave;
\* settle how the promise given to respondWith settled (response, undefined or
\* rejected; none when respondWith was not called); response what the page received
NoRequest ==
  [url |-> <<>>, method |-> "none", mode |-> "none", pc |-> "none", lookedUp |-> FALSE,
   matched |-> NoResponse, network |-> FALSE, netFailed |-> FALSE,
   fetchResponse |-> NoResponse, settle |-> "none", response |-> NoResponse]

Has(names, n) == \E i \in 1..Len(names) : names[i] = n

\* a worker that opens the namespace of the previous version
CachesOpen_previous(names, n) ==
  IF Has(names, "zenmind-v0") THEN names ELSE Append(names, "zenmind-v0")

\* caches.open(name): the namespace is created when it does not exist
CachesOpen(names, n) == IF Has(names, n) THEN names ELSE Append(names, n)

\* caches.match(request): the first namespace, in creation order, that holds a
\* response for the URL; only GET requests match
CachesMatch(url, method) ==
  IF method # "GET" THEN NoResponse
  ELSE LET hits == {i \in 1..Len(cacheNames) : cacheEntries[cacheNames[i]][url] # NoResponse}
       IN IF hits = {} THEN NoResponse
          ELSE cacheEntries[cacheNames[CHOOSE i \in hits : \A j \in hits : i <= j]][url]

\* an install that goes on although an asset could not be fetched
AddAllSucceeds_always(failures) == TRUE

\* 'cache.addAll(ASSETS_TO_CACHE)' resolves only if every asset was fetched
AddAllSucceeds(failures) == failures = {}

\* an activation that deletes nothing
IsStale_none(cacheName) == FALSE

\* 'if (cacheName !== CACHE_NAME)'
IsStale(cacheName) == cacheName # CACHE_NAME

\* a handler without the API exclusion
IsApiRequest_never(url) == FALSE

\* 'event.request.url.includes('generativelanguage.googleapis.com')'
IsApiRequest(url) == includes(url, "generativelanguage.googleapis.com")

\* a handler that goes to the network whatever the cache holds
UsesCache_never(response) == FALSE

\* 'response || fetch(event.request)'
UsesCache(response) == response # NoResponse

\* a handler that never stores what it fetched
ShouldCache_never(method, url) == FALSE

\* 'event.request.method === 'GET' && !event.request.url.includes('chrome-extension')'
ShouldCache(method, url) == method = "GET" /\ ~includes(url, "chrome-extension")

\* a catch handler without the navigation fallback
IsNavigate_never(mode) == FALSE

\* 'event.request.mode === 'navigate''
IsNavigate(mode) == mode = "navigate"

UnchangedStore == UNCHANGED storeVars /\ UNCHANGED appVars

\* install event: caches.open(CACHE_NAME), then cache.addAll starts
oninstall ==
  /\ swState = "parsed"
  /\ swState' = "installing"
  /\ cacheNames' = CachesOpen(cacheNames, CACHE_NAME)
  /\ UNCHANGED <<prevLive, cacheEntries, fetched, failed, keys, deleting, requests, nreqs,
                 pendingPuts>>
  /\ UnchangedStore

AddAllPending == swState = "installing" /\ failed = {} /\ fetched # Assets

\* one asset of the manifest is fetched
asset_fetched(a) ==
  /\ AddAllPending
  /\ a \in Assets \ fetched
  /\ fetched' = fetched \cup {a}
  /\ UNCHANGED <<swState, prevLive, cacheNames, cacheEntries, failed, keys, deleting, requests,
                 nreqs, pendingPuts>>
  /\ UnchangedStore

\* the fetch of one asset fails, or its response is not ok
asset_failed(a) ==
  /\ AddAllPending
  /\ a \in Assets \ fetched
  /\ failed' = {a}
  /\ UNCHANGED <<swState, prevLive, cacheNames, cacheEntries, fetched, keys, deleting, requests,
                 nreqs, pendingPuts>>
  /\ UnchangedStore

\* addAll resolves, every fetched response is stored, and so does waitUntil
install_resolved ==
  /\ swState = "installing"
  /\ ~AddAllPending
  /\ AddAllSucceeds(failed)
  /\ cacheEntries' =
       [cacheEntries EXCEPT ![CACHE_NAME] =
          [u \in AllUrls |-> IF u \in fetched THEN Response(u, 200, "install") ELSE @[u]]]
  /\ swState' = "installed"
  /\ UNCHANGED <<prevLive, cacheNames, fetched, failed, keys, deleting, requests, nreqs,
                 pendingPuts>>
  /\ UnchangedStore

\* addAll rejects and nothing is stored: the install fails, the worker is discarded
install_rejected ==
  /\ swState = "installing"
  /\ ~AddAllPending
  /\ ~AddAllSucceeds(failed)
  /\ swState' = "redundant"
  /\ UNCHANGED <<prevLive, cacheNames, cacheEntries, fetched, failed, keys, deleting, requests,
                 nreqs, pendingPuts>>
  /\ UnchangedStore

\* activate event: the worker replaces the previous one; caches.keys() and the
\* caches.delete of every stale name
onactivate ==
  /\ swState = "installed"
  /\ swState' = "activating"
  /\ prevLive' = FALSE
  /\ keys' = cacheNames
  /\ deleting' = {cacheNames[i] : i \in {j \in 1..Len(cacheNames) : IsStale(cacheNames[j])}}
  /\ UNCHANGED <<cacheNames, cacheEntries, fetched, failed, requests, nreqs, pendingPuts>>
  /\ UnchangedStore

\* one caches.delete completes
caches_delete(n) ==
  /\ n \in deleting
  /\ deleting' = deleting \ {n}
  /\ cacheNames' = SelectSeq(cacheNames, LAMBDA m : m # n)
  /\ cacheEntries' = [cacheEntries EXCEPT ![n] = EmptyCache]
  /\ UNCHANGED <<swState, prevLive, fetched, failed, keys, requests, nreqs, pendingPuts>>
  /\ UnchangedStore

\* Promise.all of the deletes resolves and so does waitUntil; the handler's
\* cacheNames goes out of scope
activated ==
  /\ swState = "activating"
  /\ deleting = {}
  /\ swState' = "activated"
  /\ keys' = <<>>
  /\ UNCHANGED <<prevLive, cacheNames, cacheEntries, fetched, failed, deleting, requests,
                 nreqs, pendingPuts>>
  /\ UnchangedStore

OnlyRequests == UNCHANGED <<swState, prevLive, fetched, failed, keys, deleting>>

\* fetch event of the r-th request: an API request is left to the browser, any
\* other is answered by respondWith(caches.match(...))
onfetch(r, url, method, mode) ==
  /\ swState = "activated"
  /\ nreqs = r - 1
  /\ nreqs' = r
  /\ requests' =
       [requests EXCEPT ![r] =
          [NoRequest EXCEPT !.url = url, !.method = method, !.mode = mode,
                            !.pc = IF IsApiRequest(url) THEN "passthrough" ELSE "matching",
                            !.network = IsApiRequest(url)]]
  /\ OnlyRequests
  /\ UNCHANGED <<cacheNames, cacheEntries, pendingPuts>>
  /\ UnchangedStore

\* caches.match(event.request) resolves: the cached response, or fetch(event.request)
caches_match(r) ==
  /\ requests[r].pc = "matching"
  /\ LET q == requests[r]
         m == CachesMatch(q.url, q.method)
     IN requests' =
          [requests EXCEPT ![r] =
             IF UsesCache(m)
               THEN [q EXCEPT !.lookedUp = TRUE, !.matched = m, !.response = m,
                              !.settle = "response", !.pc = "responded"]
               ELSE [q EXCEPT !.lookedUp = TRUE, !.matched = m, !.network = TRUE,
                              !.pc = "fetching"]]
  /\ OnlyRequests
  /\ UNCHANGED <<cacheNames, cacheEntries, nreqs, pendingPuts>>
  /\ UnchangedStore

\* fetch(event.request) resolves with a response of some status
fetch_resolved(r, status) ==
  /\ requests[r].pc = "fetching"
  /\ requests' =
       [requests EXCEPT ![r] =
          [@ EXCEPT !.fetchResponse = Response(requests[r].url, status, "network"),
                    !.pc = "opening"]]
  /\ OnlyRequests
  /\ UNCHANGED <<cacheNames, cacheEntries, nreqs, pendingPuts>>
  /\ UnchangedStore

\* fetch(event.request) rejects: the catch handler runs
fetch_rejected(r) ==
  /\ requests[r].pc = "fetching"
  /\ requests' =
       [requests EXCEPT ![r] =
          IF IsNavigate(requests[r].mode)
            THEN [@ EXCEPT !.netFailed = TRUE, !.pc = "fallback"]
            ELSE [@ EXCEPT !.netFailed = TRUE, !.settle = "undefined",
                           !.response = NetworkError, !.pc = "responded"]]
  /\ OnlyRequests
  /\ UNCHANGED <<cacheNames, cacheEntries, nreqs, pendingPuts>>
  /\ UnchangedStore

\* caches.open(CACHE_NAME) resolves: cache.put is started, not awaited, and the
\* fetched response is returned
caches_open(r) ==
  /\ requests[r].pc = "opening"
  /\ cacheNames' = CachesOpen(cacheNames, CACHE_NAME)
  /\ pendingPuts' =
       IF ShouldCache(requests[r].method, requests[r].url)
         THEN pendingPuts \cup {requests[r].fetchResponse}
         ELSE pendingPuts
  /\ requests' =
       [requests EXCEPT ![r] = [@ EXCEPT !.response = requests[r].fetchResponse, !.settle = "response",
                 !.pc = "responded"]]
  /\ OnlyRequests
  /\ UNCHANGED <<cacheEntries, nreqs>>
  /\ UnchangedStore

\* a cache.put started by the fetch handler completes
cache_put(e) ==
  /\ e \in pendingPuts
  /\ pendingPuts' = pendingPuts \ {e}
  /\ cacheEntries' = [cacheEntries EXCEPT ![CACHE_NAME] = [@ EXCEPT ![e.url] = e]]
  /\ OnlyRequests
  /\ UNCHANGED <<cacheNames, requests, nreqs>>
  /\ UnchangedStore

\* caches.match('/index.html') of the catch handler resolves
fallback_match(r) ==
  /\ requests[r].pc = "fallback"
  /\ LET m == CachesMatch(ShellUrl, "GET")
     IN requests' =
          [requests EXCEPT ![r] =
             [@ EXCEPT !.response = IF m = NoResponse THEN NetworkError ELSE m,
                       !.settle = IF m = NoResponse THEN "undefined" ELSE "response",
                       !.pc = "responded"]]
  /\ OnlyRequests
  /\ UNCHANGED <<cacheNames, cacheEntries, nreqs, pendingPuts>>
  /\ UnchangedStore

\* the browser's own fetch of a request the handler did not answer completes
browser_fetch(r, status) ==
  /\ requests[r].pc = "passthrough"
  /\ requests' =
       [requests EXCEPT ![r] =
          [@ EXCEPT !.response = IF status = 0 THEN NetworkError
                                  ELSE Response(requests[r].url, status, "network"),
                    !.netFailed = (status = 0),
                    !.pc = "responded"]]
  /\ OnlyRequests
  /\ UNCHANGED <<cacheNames, cacheEntries, nreqs, pendingPuts>>
  /\ UnchangedStore

\* the namespaces an earlier version may have left, in creation order
\* the tags a sync event may carry
SyncTags == {"sync-notes", "other"}

\* sync event of the active worker: 'if (event.tag === 'sync-notes')
\* event.waitUntil(syncNotes())'.  syncNotes() writes a line to the console and
\* returns; it opens no database and no cache, so no variable changes
onsync(tag) ==
  /\ swState = "activated"
  /\ tag \in SyncTags
  /\ UNCHANGED proxyVars
  /\ UnchangedStore

OldCacheNames ==
  {<<>>, <<"zenmind-v0">>, <<"workbox-precache">>, <<"zenmind-v0", "workbox-precache">>,
   <<"workbox-precache", "zenmind-v0">>}

InitProxy ==
  /\ swState = "parsed"
  /\ prevLive \in BOOLEAN
  /\ \E old \in OldCacheNames :
       /\ prevLive => Has(old, "zenmind-v0")
       /\ cacheNames \in {old, old \o <<CACHE_NAME>>}
  /\ cacheEntries =
       [n \in AllNames |-> IF n = "zenmind-v0" /\ Has(cacheNames, n) THEN OldCache
                           ELSE EmptyCache]
  /\ fetched = {}
  /\ failed = {}
  /\ keys = <<>>
  /\ deleting = {}
  /\ requests = [r \in 1..MaxRequests |-> NoRequest]
  /\ nreqs = 0
  /\ pendingPuts = {}

\* every step of the worker but the arrival of a fetch event
NextWorker ==
  \/ oninstall
  \/ \E a \in Assets : asset_fetched(a)
  \/ \E a \in Assets : asset_failed(a)
  \/ install_resolved
  \/ install_rejected
  \/ onactivate
  \/ \E n \in AllNames : caches_delete(n)
  \/ activated
  \/ \E r \in 1..MaxRequests : caches_match(r)
  \/ \E r \in 1..MaxRequests : \E status \in {200, 404} : fetch_resolved(r, status)
  \/ \E r \in 1..MaxRequests : fetch_rejected(r)
  \/ \E r \in 1..MaxRequests : caches_open(r)
  \/ \E e \in pendingPuts : cache_put(e)
  \/ \E r \in 1..MaxRequests : fallback_match(r)
  \/ \E r \in 1..MaxRequests : \E status \in {0, 200, 404} : browser_fetch(r, status)
  \/ \E tag \in SyncTags : onsync(tag)

NextProxy ==
  \/ \E r \in 1..MaxRequests : \E url \in RequestUrls, method \in Methods, mode \in Modes :
       onfetch(r, url, method, mode)
  \/ NextWorker

(***************************************************************************)
(* The App component (src/App.tsx): the lists it shows are React state,    *)
(* each handler works on the lists of the render it was created in and     *)
(* sets the state after its awaited store call.                            *)
(***************************************************************************)
\* <React.StrictMode> runs the mount effect twice in a development build
Mounts == 2

\* the values 'new Date().toISOString().split("T")[0]' takes
Days == {"d1", "d2"}

\* the ids crypto.randomUUID() produces for habits, in order
NewHabitIds == <<"g">>

\* the ids crypto.randomUUID() produces for notes, in order
NewNoteIds == <<"n">>

\* the first id of the sequence not produced yet
Fresh(ids) ==
  ids[CHOOSE i \in 1..Len(ids) : ids[i] \notin uuids /\ \A j \in 1..(i - 1) : ids[j] \in uuids]

CreatedAts == {100, 200}

\* 'Date.now()' of this session, later than any of an earlier one
Now == 300

\* the notes and the habit an earlier session left in the store
SessionNote(id, createdAt) ==
  [id |-> id, title |-> "T", content |-> "C", createdAt |-> createdAt, synced |-> TRUE]

SessionHabit == [id |-> "h", name |-> "run", completedDays |-> <<"d1", "d2">>, streak |-> 2]

\* handlers[p]: name the handler, pc where it is suspended, notes and habits the
\* lists of the render it closed over, next the list it will set, habitId and
\* today its argument and its date
IdleHandler ==
  [name |-> "none", pc |-> "idle", notes |-> <<>>, habits |-> <<>>, next |-> <<>>,
   habitId |-> "none", today |-> "none"]

\* a comparison that puts the oldest first
compare_ascending(a, b) == a.createdAt - b.createdAt

\* '(a, b) => b.createdAt - a.createdAt'
compare(a, b) == b.createdAt - a.createdAt

\* Array.prototype.sort is stable: a record goes after those that do not
\* compare greater than it
InsertSorted(sorted, r) ==
  LET k == Cardinality({i \in 1..Len(sorted) : compare(sorted[i], r) <= 0})
  IN SubSeq(sorted, 1, k) \o <<r>> \o SubSeq(sorted, k + 1, Len(sorted))

RECURSIVE sort(_)
sort(records) ==
  IF records = <<>> THEN <<>>
  ELSE InsertSorted(sort(SubSeq(records, 1, Len(records) - 1)), records[Len(records)])

\* a toggle that adds the day whether it is there or not
nextDays_add(completedDays, today) == Append(completedDays, today)

\* 'completed ? h.completedDays.filter(d => d !== today) : [...h.completedDays, today]'
nextDays(completedDays, today) ==
  IF includes(completedDays, today) THEN SelectSeq(completedDays, LAMBDA d : d # today)
  ELSE Append(completedDays, today)

\* a toggle that leaves the streak as it was
Toggled_keepStreak(h, today) ==
  [h EXCEPT !.completedDays = nextDays(h.completedDays, today)]

\* '{ ...h, completedDays: nextDays, streak: nextDays.length }'
Toggled(h, today) ==
  [h EXCEPT !.completedDays = nextDays(h.completedDays, today),
            !.streak = Len(nextDays(h.completedDays, today))]

\* 'habits.map(h => h.id === habitId ? ... : h)'
newHabits(list, habitId, today) ==
  [i \in 1..Len(list) |-> IF list[i].id = habitId THEN Toggled(list[i], today) ELSE list[i]]

\* 'list.find(h => h.id === habitId)', for an id the list holds
find(list, habitId) ==
  list[CHOOSE i \in 1..Len(list) :
         /\ list[i].id = habitId
         /\ \A j \in 1..(i - 1) : list[j].id # habitId]

\* no handler runs as p and no call of an earlier one is still in flight
Idle(p) ==
  /\ handlers[p].pc = "idle"
  /\ calls[p].pc = "idle"
  /\ calls[Second(p)].pc = "idle"

\* a new invocation runs as the first idle p, once every settled await has
\* resumed
Free(p) == Quiet /\ Idle(p) /\ \A q \in 1..(p - 1) : ~Idle(q)

AllIdle == \A p \in Procs : Idle(p)

\* the list holds the records of the collection, each once, in any order
SameRecords(list, records) ==
  /\ Len(list) = Len(records)
  /\ {list[i] : i \in 1..Len(list)} = {records[i] : i \in 1..Len(records)}

Agree == SameRecords(notes, stores["notes"]) /\ SameRecords(habits, stores["habits"])

\* a handler has ended: note whether the lists and the store agree with none
\* running
Settle == agreed' = (agreed \/ (AllIdle' /\ Agree'))

\* the mount effect calls loadData, which starts with 'await dbService.init()'.
\* The effect runs before any click is handled, and its second run follows the
\* first at once, before any event of the database
loadData(p) ==
  /\ Free(p)
  /\ loads < Mounts
  /\ nevents = 0
  /\ loads > 0 => \E q \in Procs : handlers[q].name = "loadData" /\ calls[q].pc = "opening"
  /\ loads' = loads + 1
  /\ Open(p)
  /\ handlers' = [handlers EXCEPT ![p] = [IdleHandler EXCEPT !.name = "loadData", !.pc = "init"]]
  /\ UNCHANGED <<notes, habits, nevents, uuids, agreed, ncalls>>
  /\ UNCHANGED proxyVars

\* init() has resolved, so this.db is set: both reads of
\* 'Promise.all([getAllNotes(), getAllHabits()])' start their transaction
loadData_all(p) ==
  /\ handlers[p].name = "loadData"
  /\ handlers[p].pc = "init"
  /\ calls[p].pc = "done"
  /\ LET c1 == Transaction(GetAllCall("notes"), db, objectStoreNames)
         c2 == Transaction(GetAllCall("habits"), db, objectStoreNames)
     IN /\ calls' = [calls EXCEPT ![p] = c1, ![Second(p)] = c2]
        /\ txQueue' = Enqueue(Enqueue(txQueue, p, c1), Second(p), c2)
  /\ handlers' = [handlers EXCEPT ![p] = [handlers[p] EXCEPT !.pc = "all"]]
  /\ UNCHANGED <<db, opens, ncalls, dbVersion, objectStoreNames, stores, lastWrite>>
  /\ UNCHANGED <<notes, habits, loads, nevents, uuids, agreed>>
  /\ UNCHANGED proxyVars

\* both reads resolved: 'setNotes(fetchedNotes.sort(...)); setHabits(fetchedHabits)'
loadData_loaded(p) ==
  /\ handlers[p].name = "loadData"
  /\ handlers[p].pc = "all"
  /\ calls[p].pc = "done"
  /\ calls[Second(p)].pc = "done"
  /\ notes' = sort(calls[p].result)
  /\ habits' = calls[Second(p)].result
  /\ calls' = [calls EXCEPT ![p] = IdleCall, ![Second(p)] = IdleCall]
  /\ handlers' = [handlers EXCEPT ![p] = IdleHandler]
  /\ UNCHANGED <<db, opens, ncalls, dbVersion, objectStoreNames, stores, txQueue, lastWrite>>
  /\ UNCHANGED <<loads, nevents, uuids>>
  /\ UNCHANGED proxyVars
  /\ Settle

\* a click on a habit of the list on screen: the new list is computed from the
\* list of this render, then 'await dbService.saveHabit(updated)'
handleToggleHabit(p) ==
  /\ Free(p)
  /\ nevents < MaxEvents
  /\ nevents' = nevents + 1
  /\ \E i \in 1..Len(habits), today \in Days :
       LET habitId == habits[i].id
           list == newHabits(habits, habitId, today)
           updated == find(list, habitId)
       IN /\ Issue(p, PutCall("habits", updated))
          /\ handlers' = [handlers EXCEPT ![p] =
                            [IdleHandler EXCEPT !.name = "handleToggleHabit", !.pc = "save",
                                                !.habits = habits, !.next = list,
                                                !.habitId = habitId, !.today = today]]
  /\ UNCHANGED <<notes, habits, loads, uuids, agreed, ncalls>>
  /\ UNCHANGED proxyVars

\* saveHabit resolved: 'setHabits(newHabits)'
handleToggleHabit_saved(p) ==
  /\ handlers[p].name = "handleToggleHabit"
  /\ handlers[p].pc = "save"
  /\ calls[p].pc = "done"
  /\ habits' = handlers[p].next
  /\ calls' = [calls EXCEPT ![p] = IdleCall]
  /\ handlers' = [handlers EXCEPT ![p] = IdleHandler]
  /\ UNCHANGED <<db, opens, ncalls, dbVersion, objectStoreNames, stores, txQueue, lastWrite>>
  /\ UNCHANGED <<notes, loads, nevents, uuids>>
  /\ UNCHANGED proxyVars
  /\ Settle

\* the 'new habit' button: a habit with a fresh id, no day and streak 0, then
\* 'await dbService.saveHabit(habit)'
createHabit(p) ==
  /\ Free(p)
  /\ nevents < MaxEvents
  /\ nevents' = nevents + 1
  /\ \E i \in 1..Len(NewHabitIds) : NewHabitIds[i] \notin uuids
  /\ uuids' = uuids \cup {Fresh(NewHabitIds)}
  /\ LET habit == [id |-> Fresh(NewHabitIds), name |-> "read",
                   completedDays |-> <<>>, streak |-> 0]
     IN /\ Issue(p, PutCall("habits", habit))
        /\ handlers' = [handlers EXCEPT ![p] =
                          [IdleHandler EXCEPT !.name = "createHabit", !.pc = "save",
                                              !.habits = habits,
                                              !.next = Append(habits, habit)]]
  /\ UNCHANGED <<notes, habits, loads, agreed, ncalls>>
  /\ UNCHANGED proxyVars

\* saveHabit resolved: 'setHabits([...habits, habit])', habits being the list
\* of the render the handler was created in
createHabit_saved(p) ==
  /\ handlers[p].name = "createHabit"
  /\ handlers[p].pc = "save"
  /\ calls[p].pc = "done"
  /\ habits' = handlers[p].next
  /\ calls' = [calls EXCEPT ![p] = IdleCall]
  /\ handlers' = [handlers EXCEPT ![p] = IdleHandler]
  /\ UNCHANGED <<db, opens, ncalls, dbVersion, objectStoreNames, stores, txQueue, lastWrite>>
  /\ UNCHANGED <<notes, loads, nevents, uuids>>
  /\ UNCHANGED proxyVars
  /\ Settle

\* the form is submitted with a title: a note with a fresh id and the present
\* time, then 'await dbService.saveNote(note)'
handleAddNote(p) ==
  /\ Free(p)
  /\ nevents < MaxEvents
  /\ nevents' = nevents + 1
  /\ \E i \in 1..Len(NewNoteIds) : NewNoteIds[i] \notin uuids
  /\ uuids' = uuids \cup {Fresh(NewNoteIds)}
  /\ LET note == [id |-> Fresh(NewNoteIds), title |-> "N", content |-> "C",
                  createdAt |-> Now, synced |-> TRUE]
     IN /\ Issue(p, PutCall("notes", note))
        /\ handlers' = [handlers EXCEPT ![p] =
                          [IdleHandler EXCEPT !.name = "handleAddNote", !.pc = "save",
                                              !.notes = notes,
                                              !.next = <<note>> \o notes]]
  /\ UNCHANGED <<notes, habits, loads, agreed, ncalls>>
  /\ UNCHANGED proxyVars

\* saveNote resolved: 'setNotes([note, ...notes])', notes being the list of the
\* render the handler was created in
handleAddNote_saved(p) ==
  /\ handlers[p].name = "handleAddNote"
  /\ handlers[p].pc = "save"
  /\ calls[p].pc = "done"
  /\ notes' = handlers[p].next
  /\ calls' = [calls EXCEPT ![p] = IdleCall]
  /\ handlers' = [handlers EXCEPT ![p] = IdleHandler]
  /\ UNCHANGED <<db, opens, ncalls, dbVersion, objectStoreNames, stores, txQueue, lastWrite>>
  /\ UNCHANGED <<habits, loads, nevents, uuids>>
  /\ UNCHANGED proxyVars
  /\ Settle

\* the delete button of a note on screen: 'await dbService.deleteNote(id)'
handleDeleteNote(p) ==
  /\ Free(p)
  /\ nevents < MaxEvents
  /\ nevents' = nevents + 1
  /\ \E i \in 1..Len(notes) :
       LET id == notes[i].id
       IN /\ Issue(p, DeleteCall("notes", id))
          /\ handlers' = [handlers EXCEPT ![p] =
                            [IdleHandler EXCEPT !.name = "handleDeleteNote", !.pc = "save",
                                                !.notes = notes,
                                                !.next = SelectSeq(notes, LAMBDA n : n.id # id)]]
  /\ UNCHANGED <<notes, habits, loads, uuids, agreed, ncalls>>
  /\ UNCHANGED proxyVars

\* deleteNote resolved: 'setNotes(notes.filter(n => n.id !== id))'
handleDeleteNote_saved(p) ==
  /\ handlers[p].name = "handleDeleteNote"
  /\ handlers[p].pc = "save"
  /\ calls[p].pc = "done"
  /\ notes' = handlers[p].next
  /\ calls' = [calls EXCEPT ![p] = IdleCall]
  /\ handlers' = [handlers EXCEPT ![p] = IdleHandler]
  /\ UNCHANGED <<db, opens, ncalls, dbVersion, objectStoreNames, stores, txQueue, lastWrite>>
  /\ UNCHANGED <<habits, loads, nevents, uuids>>
  /\ UNCHANGED proxyVars
  /\ Settle

\* an awaited call rejected: no handler has a try/catch, so it ends there and
\* sets no state
rejected(p) ==
  /\ handlers[p].pc # "idle"
  /\ calls[p].pc = "failed" \/ calls[Second(p)].pc = "failed"
  /\ calls' = [s \in DOMAIN calls |->
                 IF s \in {p, Second(p)} /\ calls[s].pc \in {"done", "failed"} THEN IdleCall
                 ELSE calls[s]]
  /\ handlers' = [handlers EXCEPT ![p] = IdleHandler]
  /\ UNCHANGED <<db, opens, ncalls, dbVersion, objectStoreNames, stores, txQueue, lastWrite>>
  /\ UNCHANGED <<notes, habits, loads, nevents, uuids>>
  /\ UNCHANGED proxyVars
  /\ Settle

\* the handler slot slot s belongs to
Owner(s) == IF s > NProcs THEN s - NProcs ELSE s

\* the other read of a Promise.all that has rejected settles: nothing awaits it
dropped(s) ==
  /\ handlers[Owner(s)].pc = "idle"
  /\ calls[s].pc \in {"done", "failed"}
  /\ calls' = [calls EXCEPT ![s] = IdleCall]
  /\ UNCHANGED <<db, opens, ncalls, dbVersion, objectStoreNames, stores, txQueue, lastWrite>>
  /\ UNCHANGED <<notes, habits, handlers, loads, nevents, uuids>>
  /\ UNCHANGED proxyVars
  /\ Settle

\* the component before its first render
InitApp ==
  /\ notes = <<>>
  /\ habits = <<>>
  /\ handlers = [p \in Procs |-> IdleHandler]
  /\ loads = 0
  /\ nevents = 0
  /\ uuids = {}
  /\ agreed = FALSE

NextApp ==
  \/ \E p \in Procs :
       \/ loadData(p)
       \/ loadData_all(p)
       \/ loadData_loaded(p)
       \/ handleToggleHabit(p)
       \/ handleToggleHabit_saved(p)
       \/ createHabit(p)
       \/ createHabit_saved(p)
       \/ handleAddNote(p)
       \/ handleAddNote_saved(p)
       \/ handleDeleteNote(p)
       \/ handleDeleteNote_saved(p)
       \/ rejected(p)
  \/ \E s \in Slots :
       \/ open_onsuccess(s)
       \/ open_onerror(s)
       \/ request_onsuccess(s)
       \/ request_onerror(s)
       \/ dropped(s)

Init == InitStore /\ InitProxy /\ InitApp

Next == NextStore \/ NextProxy

\* the local store alone, on an origin with no worker and no cache yet
InitStoreAlone == InitStore /\ InitProxy /\ InitApp /\ ~prevLive /\ cacheNames = <<>>

SpecStore == InitStoreAlone /\ [][NextStore]_vars

\* the local store and the service worker of one origin
Spec == Init /\ [][Next]_vars

\* the service worker alone, on an origin whose database does not exist yet
InitProxyAlone == InitStore /\ InitProxy /\ InitApp /\ dbVersion = 0

SpecProxy == InitProxyAlone /\ [][NextProxy]_vars

\* the page and the worker of one origin, over what an earlier session left: a
\* note and a habit in the store, the cache of the previous worker
InitOrigin ==
  /\ InitProxy /\ prevLive /\ cacheNames = <<"zenmind-v0">>
  /\ InitApp
  /\ db = 0
  /\ opens = 0
  /\ ncalls = 0
  /\ dbVersion = DB_VERSION
  /\ objectStoreNames = StoreNames
  /\ stores = [s \in StoreNames |-> IF s = "notes" THEN <<StoredNote>> ELSE <<SessionHabit>>]
  /\ calls = [p \in Procs |-> IdleCall]
  /\ txQueue = <<>>
  /\ lastWrite = [s \in StoreNames |-> NoWrite]

\* the page may still make a call or a request
Together == ncalls + nreqs < MaxTogether

NextOrigin ==
  \/ \E p \in Procs :
       \/ Together /\ init(p)
       \/ Together /\ getAllNotes(p)
       \/ Together /\ saveNote(p)
       \/ Together /\ deleteNote(p)
       \/ Together /\ getAllHabits(p)
       \/ Together /\ saveHabit(p)
       \/ open_onsuccess(p)
       \/ open_onerror(p)
       \/ request_onsuccess(p)
       \/ request_onerror(p)
       \/ settled(p)
  \/ \E r \in 1..MaxRequests : \E url \in RequestUrls, method \in Methods, mode \in Modes :
       Together /\ onfetch(r, url, method, mode)
  \/ NextWorker

SpecOrigin == InitOrigin /\ [][NextOrigin]_vars

\* the App component on an origin with no worker, over the store of an earlier
\* session: two notes, created in either order, and one habit
InitAppAlone ==
  /\ InitProxy /\ ~prevLive /\ cacheNames = <<>>
  /\ InitApp
  /\ db = 0
  /\ opens = 0
  /\ ncalls = 0
  /\ dbVersion = DB_VERSION
  /\ objectStoreNames = StoreNames
  /\ \E ca, cb \in CreatedAts :
       ca # cb /\ stores = [s \in StoreNames |->
                  IF s = "notes" THEN <<SessionNote("a", ca), SessionNote("b", cb)>>
                  ELSE <<SessionHabit>>]
  /\ calls = [p \in Slots |-> IdleCall]
  /\ txQueue = <<>>
  /\ lastWrite = [s \in StoreNames |-> NoWrite]

SpecApp == InitAppAlone /\ [][NextApp]_vars

(***************************************************************************)
(* Properties of the local store                                           *)
(***************************************************************************)
Ids(records) == {records[i].id : i \in 1..Len(records)}

Occurrences(records, id) == Cardinality({i \in 1..Len(records) : records[i].id = id})

Executed(p, op) == calls[p].pc = "done" /\ calls[p].op = op

\* C1: a listAll executed right after a successful put on the same collection
\* returns the record that was put, once and with the same field values; if the
\* collection was empty before the put, it returns exactly that record.
C1_RoundTrip ==
  \A p \in Procs :
    (Executed(p, "getAll") /\ calls[p].seen.op = "put") =>
      LET d == calls[p].seen.data
          r == calls[p].result
      IN /\ Occurrences(r, d.id) = 1
         /\ \E i \in 1..Len(r) : r[i] = d
         /\ calls[p].seen.wasEmpty => r = <<d>>

C1_Witness ==
  \E p \in Procs :
    /\ Executed(p, "getAll")
    /\ calls[p].store = "notes"
    /\ calls[p].seen.op = "put"
    /\ calls[p].seen.wasEmpty
    /\ calls[p].result = <<calls[p].seen.data>>

\* C2: a listAll executed right after a successful delete returns no record with
\* the deleted id, and a delete of an id that is not in the collection completes
\* without error and leaves the collection as it was.
C2_DeleteThenList ==
  \A p \in Procs :
    /\ (Executed(p, "getAll") /\ calls[p].seen.op = "delete") =>
         calls[p].seen.data.id \notin Ids(calls[p].result)
    /\ Executed(p, "delete") =>
         /\ calls[p].err = "none"
         /\ calls[p].data.id \notin Ids(calls[p].after)
         /\ calls[p].data.id \notin Ids(calls[p].before) => calls[p].after = calls[p].before

C2_Witness ==
  \E p, q \in Procs :
    /\ Executed(p, "getAll")
    /\ calls[p].seen.op = "delete"
    /\ calls[p].seen.data.id = "a"
    /\ Executed(q, "delete")
    /\ "a" \in Ids(calls[q].before)

C2_WitnessAbsent ==
  \E p \in Procs :
    /\ Executed(p, "delete")
    /\ calls[p].before # <<>>
    /\ calls[p].data.id \notin Ids(calls[p].before)

\* C3: each collection holds at most one record per id; a put of an id already
\* stored replaces that record and the collection does not grow; the same put
\* executed twice in a row leaves the collection as the first one left it.
C3_PutReplaces ==
  /\ \A s \in StoreNames : \A id \in Ids(stores[s]) : Occurrences(stores[s], id) = 1
  /\ \A p \in Procs :
       Executed(p, "put") =>
         /\ \E i \in 1..Len(calls[p].after) : calls[p].after[i] = calls[p].data
         /\ Occurrences(calls[p].after, calls[p].data.id) = 1
         /\ calls[p].data.id \in Ids(calls[p].before) =>
              Len(calls[p].after) = Len(calls[p].before)
         /\ (calls[p].seen.op = "put" /\ calls[p].seen.data = calls[p].data) =>
              calls[p].after = calls[p].before

C3_Witness ==
  \E p \in Procs :
    /\ Executed(p, "put")
    /\ calls[p].seen.op = "put"
    /\ calls[p].seen.data = calls[p].data
    /\ Len(calls[p].before) = 2

C3_WitnessReplace ==
  \E p \in Procs :
    /\ Executed(p, "put")
    /\ \E i \in 1..Len(calls[p].before) :
         /\ calls[p].before[i].id = calls[p].data.id
         /\ calls[p].before[i] # calls[p].data

\* C4: an initialize() called when the database is already open issues no open
\* request and leaves the database handle and both collections as they were.
C4_InitNoOpWhenOpen ==
  \A p \in Procs :
    (calls[p].op = "init" /\ calls[p].dbAtCall # 0) =>
      /\ calls[p].req = 0
      /\ calls[p].pc = "done" => db = calls[p].dbAtCall

C5_NoNullTransaction ==
  \A p \in Procs :
    /\ calls[p].err # "TypeError"
    /\ (calls[p].op \in {"getAll", "put", "delete"} /\ calls[p].pc \in {"pending", "done"}) =>
         calls[p].handle # 0

\* C5: no transaction is started on a null database handle, whatever the order
\* and interleaving of the calls, and a handle once set is never null again.
C5_OpenBeforeTransaction ==
  /\ [](C5_NoNullTransaction)
  /\ [][db # 0 => db' # 0]_vars

C5_Witness ==
  \E p, q \in Procs :
    /\ p # q
    /\ \A r \in {p, q} :
         /\ calls[r].op \in {"getAll", "put", "delete"}
         /\ calls[r].dbAtCall = 0
         /\ calls[r].req # 0
         /\ calls[r].pc \in {"pending", "done"}
         /\ calls[r].handle # 0

StoreOps == {"getAll", "put", "delete"}

InQueue(p) == \E i \in 1..Len(txQueue) : txQueue[i] = p

\* C13: when the database cannot be opened, init() and every operation that
\* triggered the open fail with the open error; no transaction is started, no
\* collection changes, the call issues no second open request, and this.db stays
\* null so that a later operation tries to open again.
C13_OpenFailure ==
  /\ \A p \in Procs :
       /\ calls[p].err = "open" =>
            /\ calls[p].pc = "failed"
            /\ calls[p].req # 0
            /\ calls[p].handle = 0
            /\ ~InQueue(p)
            /\ db # calls[p].req
            /\ calls[p].before = <<>> /\ calls[p].after = <<>> /\ calls[p].result = <<>>
       /\ (calls[p].pc = "failed" /\ calls[p].handle = 0) => calls[p].err = "open"
       /\ (calls[p].op = "init" /\ calls[p].pc = "done") => db # 0
       /\ (calls[p].op \in StoreOps /\ calls[p].dbAtCall = 0) => calls[p].req # 0
  /\ opens <= ncalls
  /\ db = 0 => /\ txQueue = <<>>
               /\ \A s \in StoreNames : lastWrite[s] = NoWrite

C13_Witness ==
  \E p, q \in Procs :
    /\ calls[p].op = "put"
    /\ calls[p].err = "open"
    /\ calls[p].req = 1
    /\ calls[q].op \in StoreOps
    /\ calls[q].dbAtCall = 0
    /\ calls[q].req = 2
    /\ calls[q].pc = "done"
    /\ db = 2

Completing(s) ==
  {p \in Procs : calls[p].pc = "pending" /\ calls'[p].pc = "done" /\ calls[p].store = s}

Kept(before, after, id) ==
  \A i \in 1..Len(before) :
    before[i].id # id => \E j \in 1..Len(after) : after[j] = before[i]

\* what one whole put or delete makes of a collection
WholeWrite(c) ==
  /\ Len(c.after) = Cardinality(Ids(c.after))
  /\ Kept(c.before, c.after, c.data.id)
  /\ c.op = "put" =>
       /\ Ids(c.after) = Ids(c.before) \cup {c.data.id}
       /\ \E i \in 1..Len(c.after) : c.after[i] = c.data
  /\ c.op = "delete" => Ids(c.after) = Ids(c.before) \ {c.data.id}

\* C19: whatever the interleaving of the calls, a collection changes only by
\* one whole put or delete at a time, each applied to what the one before left,
\* so its content is that of the writes in some sequential order; a listAll
\* returns the content as it stood between two writes.
C19_AtomicOperations ==
  [][\A s \in StoreNames :
       /\ Cardinality(Completing(s)) <= 1
       /\ stores'[s] # stores[s] =>
            \E p \in Completing(s) : calls[p].op \in {"put", "delete"}
       /\ \A p \in Completing(s) :
            /\ calls'[p].before = stores[s]
            /\ calls'[p].after = stores'[s]
            /\ calls[p].op = "getAll" =>
                 calls'[p].result = stores[s] /\ stores'[s] = stores[s]
            /\ calls[p].op \in {"put", "delete"} => WholeWrite(calls'[p])]_vars

\* two puts of one id made while the database was not yet open, both executed
C19_Witness ==
  \E p, q \in Procs :
    /\ p # q
    /\ \A r \in {p, q} :
         /\ Executed(r, "put")
         /\ calls[r].store = "notes"
         /\ calls[r].dbAtCall = 0
         /\ calls[r].data.id = "a"
    /\ calls[p].data # calls[q].data
    /\ calls[q].before = calls[p].after
    /\ stores["notes"] = calls[q].after
    /\ calls[q].after = <<calls[q].data>>

(***************************************************************************)
(* Properties of the service worker                                        *)
(***************************************************************************)
Responded(r) == requests[r].pc = "responded"

Excluded(r) == includes(requests[r].url, "generativelanguage.googleapis.com")

\* the fetch handler's cache lookup of request r resolves in this step
LookupStep(r) == requests[r].pc = "matching" /\ requests'[r].pc # "matching"

C6_AnsweredFromCache ==
  \A r \in 1..MaxRequests :
    requests[r].matched # NoResponse =>
      /\ ~requests[r].network
      /\ requests[r].fetchResponse = NoResponse
      /\ Responded(r)
      /\ requests[r].response = requests[r].matched

\* C6: while the worker is active, a request that is not excluded and has an
\* entry in the cache is answered with that entry, and no network fetch is made
\* for it.
C6_CacheFirst ==
  /\ [](C6_AnsweredFromCache)
  /\ [][\A r \in 1..MaxRequests :
          (/\ LookupStep(r)
           /\ requests[r].method = "GET"
           /\ cacheEntries[CACHE_NAME][requests[r].url] # NoResponse) =>
            /\ requests'[r].response = cacheEntries[CACHE_NAME][requests[r].url]
            /\ requests'[r].pc = "responded"
            /\ ~requests'[r].network]_vars

C6_Witness ==
  \E r \in 1..MaxRequests :
    /\ Responded(r)
    /\ requests[r].url = ShellUrl
    /\ requests[r].matched = Response(ShellUrl, 200, "install")
    /\ requests[r].response = requests[r].matched
    /\ ~requests[r].network

\* C7: a navigation request that misses the cache and whose network fetch fails
\* is answered with the cached '/index.html', not with an error.
C7_NavigationFallback ==
  \A r \in 1..MaxRequests :
    (/\ Responded(r)
     /\ requests[r].mode = "navigate"
     /\ requests[r].lookedUp
     /\ requests[r].matched = NoResponse
     /\ requests[r].netFailed) =>
      /\ requests[r].response = cacheEntries[CACHE_NAME][ShellUrl]
      /\ requests[r].response.url = ShellUrl
      /\ requests[r].response.src \notin {"none", "error"}

C7_Witness ==
  \E r \in 1..MaxRequests :
    /\ Responded(r)
    /\ requests[r].mode = "navigate"
    /\ requests[r].url = AppUrl
    /\ requests[r].matched = NoResponse
    /\ requests[r].netFailed
    /\ requests[r].response = Response(ShellUrl, 200, "install")

\* C8: a request to the insight-generation endpoint is never looked up in the
\* cache, never answered from it and never written to it, and the cache of the
\* current version never holds an entry for the endpoint.
C8_ApiExcluded ==
  /\ \A r \in 1..MaxRequests :
       (requests[r].pc # "none" /\ Excluded(r)) =>
         /\ ~requests[r].lookedUp
         /\ requests[r].matched = NoResponse
         /\ requests[r].pc \in {"passthrough", "responded"}
         /\ \A e \in pendingPuts : e.url # requests[r].url
  /\ \A e \in pendingPuts : ~includes(e.url, "generativelanguage.googleapis.com")
  /\ cacheEntries[CACHE_NAME][ApiUrl] = NoResponse
  /\ swState = "activated" =>
       \A i \in 1..Len(cacheNames) : cacheEntries[cacheNames[i]][ApiUrl] = NoResponse

C8_Witness ==
  \E r, q \in 1..MaxRequests :
    /\ Responded(r)
    /\ requests[r].url = ApiUrl
    /\ requests[r].method = "GET"
    /\ requests[r].response = Response(ApiUrl, 200, "network")
    /\ Responded(q)
    /\ cacheEntries[CACHE_NAME][requests[q].url] = Response(AppUrl, 200, "network")

C9_CurrentKept ==
  swState = "activated" =>
    /\ Has(cacheNames, CACHE_NAME)
    /\ \A a \in Assets : cacheEntries[CACHE_NAME][a] = Response(a, 200, "install")

\* C9: when activation completes, every namespace that existed before it under a
\* name other than 'zenmind-v1' has been deleted, and 'zenmind-v1' is kept with
\* the assets of the install.
C9_StaleEviction ==
  /\ [](C9_CurrentKept)
  /\ [][(swState = "activating" /\ swState' = "activated") =>
          /\ \A i \in 1..Len(keys) : keys[i] # CACHE_NAME => ~Has(cacheNames', keys[i])
          /\ Has(keys, CACHE_NAME) /\ Has(cacheNames', CACHE_NAME)
          /\ cacheEntries'[CACHE_NAME] = cacheEntries[CACHE_NAME]]_vars

\* all deletes of an activation that found 'zenmind-v0' and 'zenmind-v1' are done
C9_Witness ==
  /\ swState = "activating"
  /\ deleting = {}
  /\ keys = <<"zenmind-v0", CACHE_NAME>>
  /\ cacheNames = <<CACHE_NAME>>

C10_FailedInstallStops ==
  failed # {} =>
    /\ swState \in {"installing", "redundant"}
    /\ keys = <<>>
    /\ cacheEntries[CACHE_NAME] = EmptyCache

\* C10: if an asset of the manifest cannot be fetched the install fails, nothing
\* is stored, the worker is never activated, and the previous version and the
\* namespaces it left stay as they were.
C10_InstallAllOrNothing ==
  /\ [](C10_FailedInstallStops)
  /\ [][swState = "redundant" => swState' = "redundant"]_vars
  /\ [][swState' \in {"installing", "redundant"} =>
          /\ prevLive' = prevLive
          /\ \A n \in OldNames :
               /\ Has(cacheNames', n) = Has(cacheNames, n)
               /\ cacheEntries'[n] = cacheEntries[n]]_vars

C10_Witness ==
  /\ swState = "redundant"
  /\ failed # {}
  /\ fetched # {}
  /\ prevLive
  /\ Has(cacheNames, "zenmind-v0")
  /\ cacheEntries["zenmind-v0"] = OldCache

\* a response the fetch handler took from the network
FromNetwork(e) == e.src = "network"

\* request r missed the cache and its network fetch resolved
Fetched(r) == requests[r].fetchResponse # NoResponse

Cacheable(r) ==
  requests[r].method = "GET" /\ ~includes(requests[r].url, "chrome-extension")

\* C11: the fetch handler writes a response to the cache only if the network
\* fetch succeeded, the request is a GET, the response is successful and the
\* request is not one of a browser extension.
C11_PopulationGuard ==
  /\ \A e \in pendingPuts :
       /\ e.status = 200
       /\ ~includes(e.url, "chrome-extension")
       /\ \E r \in 1..MaxRequests :
            requests[r].fetchResponse = e /\ requests[r].method = "GET"
  /\ \A u \in AllUrls :
       FromNetwork(cacheEntries[CACHE_NAME][u]) =>
         /\ cacheEntries[CACHE_NAME][u].status = 200
         /\ ~includes(u, "chrome-extension")

\* what the handler does guard: the method and the extension URLs
C11_MethodAndOriginGuard ==
  /\ \A e \in pendingPuts :
       /\ ~includes(e.url, "chrome-extension")
       /\ \E r \in 1..MaxRequests :
            requests[r].fetchResponse = e /\ requests[r].method = "GET"
  /\ \A u \in AllUrls :
       FromNetwork(cacheEntries[CACHE_NAME][u]) => ~includes(u, "chrome-extension")

\* C12: a request that is not a navigation, misses the cache and whose network
\* fetch fails gets that failure: the promise given to respondWith rejects, no
\* response is substituted and the handler does not swallow the error.
C12_FailurePropagates ==
  \A r \in 1..MaxRequests :
    (/\ Responded(r)
     /\ requests[r].mode # "navigate"
     /\ requests[r].lookedUp
     /\ requests[r].matched = NoResponse
     /\ requests[r].netFailed) =>
      /\ requests[r].settle = "rejected"
      /\ requests[r].response = NetworkError

\* the page does get a network error and no substituted response
C12_PageGetsError ==
  \A r \in 1..MaxRequests :
    (/\ Responded(r)
     /\ requests[r].mode # "navigate"
     /\ requests[r].lookedUp
     /\ requests[r].matched = NoResponse
     /\ requests[r].netFailed) =>
      requests[r].response = NetworkError

\* C18: once activation has completed, and whatever requests are handled, there
\* is exactly one cache namespace, 'zenmind-v1'; request handling creates and
\* writes no other.
C18_SingleGeneration ==
  swState = "activated" =>
    /\ cacheNames = <<CACHE_NAME>>
    /\ \A n \in OldNames : cacheEntries[n] = EmptyCache

C18_Witness ==
  /\ swState = "activated"
  /\ cacheNames = <<CACHE_NAME>>
  /\ nreqs >= 2
  /\ \A r \in 1..2 : Responded(r)
  /\ cacheEntries[CACHE_NAME][AppUrl] = Response(AppUrl, 200, "network")
  /\ pendingPuts = {}

\* the fetch handler returns the fetched response of request r in this step
ReturnStep(r) == requests[r].pc = "opening" /\ requests'[r].pc = "responded"

\* C20: on a cache miss whose fetch succeeds for a cacheable request, the copy
\* is in the cache when the response is returned to the caller.
C20_StoredBeforeReturn ==
  [][\A r \in 1..MaxRequests :
       (ReturnStep(r) /\ Cacheable(r)) =>
         cacheEntries'[CACHE_NAME][requests[r].url] = requests[r].fetchResponse]_vars

C20_PutStarted ==
  \A r \in 1..MaxRequests :
    (Responded(r) /\ Fetched(r) /\ Cacheable(r)) =>
      \/ \E e \in pendingPuts : e.url = requests[r].url
      \/ FromNetwork(cacheEntries[CACHE_NAME][requests[r].url])

\* C20 as amended: the cache.put of the copy is started, not completed, before
\* the response is returned; when the caller receives the response the put is
\* pending or done.
C20_PutStartedBeforeReturn ==
  /\ [](C20_PutStarted)
  /\ [][\A r \in 1..MaxRequests :
          (ReturnStep(r) /\ Cacheable(r)) =>
            /\ requests[r].fetchResponse \in pendingPuts'
            /\ requests'[r].response = requests[r].fetchResponse]_vars

\* the response is with the page and its copy is not in the cache yet
C20_Witness ==
  \E r \in 1..MaxRequests :
    /\ Responded(r)
    /\ requests[r].url = AppUrl
    /\ requests[r].response = Response(AppUrl, 200, "network")
    /\ requests[r].response \in pendingPuts
    /\ cacheEntries[CACHE_NAME][AppUrl] = NoResponse

(***************************************************************************)
(* Properties of the App component                                         *)
(***************************************************************************)
DaySet(completedDays) == {completedDays[i] : i \in 1..Len(completedDays)}

Count(completedDays, day) ==
  Cardinality({i \in 1..Len(completedDays) : completedDays[i] = day})

\* C15: a toggle of a habit for a day removes the day from completedDays if it
\* is there and adds it if it is not, no day is ever listed twice, and a second
\* toggle for the same day, made on the result of the first, gives back the
\* days the habit had (as a set: the order may differ).
C15_ToggleInvolution ==
  \A p \in Procs :
    handlers[p].name = "handleToggleHabit" =>
      LET id == handlers[p].habitId
          day == handlers[p].today
          h == find(handlers[p].habits, id)
          once == find(handlers[p].next, id)
          twice == find(newHabits(handlers[p].next, id, day), id)
      IN /\ DaySet(once.completedDays) =
              IF day \in DaySet(h.completedDays) THEN DaySet(h.completedDays) \ {day}
              ELSE DaySet(h.completedDays) \cup {day}
         /\ DaySet(twice.completedDays) = DaySet(h.completedDays)
         /\ \A d \in Days : /\ Count(once.completedDays, d) <= 1
                            /\ Count(twice.completedDays, d) <= 1

\* the second of two toggles of habit h for day d1: the first one took d1 out
\* of <<d1, d2>> and was saved, this one puts it back, after d2
C15_Witness ==
  \E p \in Procs :
    /\ handlers[p].name = "handleToggleHabit"
    /\ handlers[p].habitId = "h"
    /\ handlers[p].today = "d1"
    /\ handlers[p].habits = habits
    /\ find(habits, "h").completedDays = <<"d2">>
    /\ find(stores["habits"], "h").completedDays = <<"d2">>
    /\ find(handlers[p].next, "h").completedDays = <<"d2", "d1">>

Elements(list) == {list[i] : i \in 1..Len(list)}

\* C16: every habit of the list on screen and every habit of the persisted
\* collection has streak equal to the number of its completedDays.
C16_StreakIsCount ==
  \A h \in Elements(habits) \cup Elements(stores["habits"]) :
    h.streak = Len(h.completedDays)

\* a created habit and a toggled one, on screen and in the store
C16_Witness ==
  \E g, h \in Elements(habits) :
    /\ g.id = "g" /\ g.completedDays = <<>> /\ g.streak = 0
    /\ h.id = "h" /\ h.completedDays = <<"d2">> /\ h.streak = 1
    /\ {g, h} \subseteq Elements(stores["habits"])

\* loadData sets the notes in this step
Loaded(p) ==
  /\ handlers[p].name = "loadData"
  /\ handlers[p].pc = "all"
  /\ calls[p].pc = "done"
  /\ calls[Second(p)].pc = "done"
  /\ handlers'[p].pc = "idle"

Descending(list) ==
  \A i, j \in 1..Len(list) : i < j => list[i].createdAt >= list[j].createdAt

\* C17: when loadData sets the notes, the list holds the records the store
\* returned, ordered by createdAt descending: of two notes with different
\* createdAt the one with the larger comes first.
C17_LoadedNotesDescending ==
  [][\A p \in Procs :
       Loaded(p) => /\ Descending(notes')
                    /\ Len(notes') = Len(calls[p].result)
                    /\ Elements(notes') = Elements(calls[p].result)]_vars

\* the store returned the note of createdAt 100 first, the list has it last
C17_Witness ==
  /\ stores["notes"] = <<SessionNote("a", 100), SessionNote("b", 200)>>
  /\ notes = <<SessionNote("b", 200), SessionNote("a", 100)>>

(***************************************************************************)
(* Properties of the store and the worker together                         *)
(***************************************************************************)
\* C21: a request that completes on one collection leaves the other one as it
\* was, a collection changes only by a put or delete made on it, no step of
\* LocalDatabase changes the cache namespaces or their entries, and no event of
\* the worker (install, activate, fetch, sync) changes a collection or the
\* database.
C21_CollectionIndependence ==
  [][/\ \A s \in StoreNames :
          /\ \A p \in Completing(s) :
               \A t \in StoreNames \ {s} : stores'[t] = stores[t]
          /\ stores'[s] # stores[s] =>
               \E p \in Completing(s) : calls[p].op \in {"put", "delete"}
     /\ storeVars' # storeVars =>
          cacheNames' = cacheNames /\ cacheEntries' = cacheEntries
     /\ proxyVars' # proxyVars =>
          /\ stores' = stores
          /\ dbVersion' = dbVersion
          /\ objectStoreNames' = objectStoreNames]_vars

\* a note was put while the habits collection held a habit and the worker,
\* activated, had filled its cache
C21_Witness ==
  \E p \in Procs :
    /\ Executed(p, "put")
    /\ calls[p].store = "notes"
    /\ calls[p].after # calls[p].before
    /\ stores["notes"] = calls[p].after
    /\ stores["habits"] = <<SessionHabit>>
    /\ swState = "activated"
    /\ cacheEntries[CACHE_NAME][ShellUrl].status = 200

(***************************************************************************)
(* Properties of overlapping handlers                                      *)
(***************************************************************************)
\* C22: once the lists have agreed with the store, then whenever every handler
\* started since has completed, the notes and habits lists hold exactly the
\* records of the persisted notes and habits collections.
C22_ViewStoreAgreement == (agreed /\ AllIdle) => Agree

====
